---- MODULE Spec2Model ----
(***************************************************************************)
(* Model of api/check.rs of magnet-watchtower: the uptime-check handler.   *)
(* One run of `handler` is modelled as the handler's control flow, split   *)
(* at its await points, together with one tokio task per domain running    *)
(* `check_domain`, and the environment that answers the HTTP GETs and the  *)
(* Slack webhook POST.                                                     *)
(***************************************************************************)
EXTENDS Integers, Sequences, FiniteSets, TLC

\* Largest number of domains in domains.json that the model explores.
MaxTargets == 2

\* fn default_timeout() -> u64
default_timeout == 10

\* Option<T>: None is the empty sequence, Some(v) the one-element sequence.
None == <<>>
Some(v) == <<v>>

\* struct Domain { name, url, timeout_seconds }: the entries domains.json may hold.
DomainSet ==
    { [name |-> "A", url |-> "https://a.example", timeout_seconds |-> 1],
      [name |-> "B", url |-> "https://b.example", timeout_seconds |-> default_timeout] }

\* Vec<Domain> of struct DomainsConfig, up to MaxTargets entries.
DomainLists == UNION { [1..n -> DomainSet] : n \in 0..MaxTargets }

\* HTTP status codes the environment may answer a GET with.
StatusCodes == {101, 200, 299, 300, 404}

\* reqwest::Error as check_domain observes it: is_timeout(), is_connect(),
\* is_request() and its Display text.
ReqwestErrors ==
    { [is_timeout |-> TRUE,  is_connect |-> FALSE, is_request |-> TRUE,
       display |-> "operation timed out"],
      [is_timeout |-> TRUE,  is_connect |-> TRUE,  is_request |-> TRUE,
       display |-> "connect timed out"],
      [is_timeout |-> FALSE, is_connect |-> TRUE,  is_request |-> TRUE,
       display |-> "tcp connect error"],
      [is_timeout |-> FALSE, is_connect |-> FALSE, is_request |-> TRUE,
       display |-> "connection closed before message completed"],
      [is_timeout |-> FALSE, is_connect |-> FALSE, is_request |-> FALSE,
       display |-> "builder error"],
      [is_timeout |-> FALSE, is_connect |-> FALSE, is_request |-> FALSE,
       display |-> "error following redirect"] }

NoError == [is_timeout |-> FALSE, is_connect |-> FALSE, is_request |-> FALSE,
            display |-> ""]

\* start.elapsed().as_millis() of a probe that did not hit its deadline.
ElapsedBeforeDeadline == {42}

\* What `.send().await` of a GET can yield for `domain`: Ok(response) with a
\* status, or Err(e); elapsed is the wall-clock time the await took.  A timeout
\* error is raised by the deadline `.timeout(timeout)`, so not before it.
SendOutcomes(domain) ==
    { [ok |-> TRUE, status |-> s, e |-> NoError, elapsed |-> ms] :
        s \in StatusCodes, ms \in ElapsedBeforeDeadline }
    \cup
    { [ok |-> FALSE, status |-> 0, e |-> e, elapsed |-> ms] :
        e \in { x \in ReqwestErrors : ~x.is_timeout }, ms \in ElapsedBeforeDeadline }
    \cup
    { [ok |-> FALSE, status |-> 0, e |-> e, elapsed |-> domain.timeout_seconds * 1000 + d] :
        e \in { x \in ReqwestErrors : x.is_timeout }, d \in {0, 1} }

\* Mutant of is_success: the lower end of the range is not checked.
is_success_up_to_299(status) == status <= 299

\* StatusCode::is_success
is_success(status) == 200 <= status /\ status <= 299

\* Mutant of check_domain: the elapsed time is recorded in seconds.
check_domain_as_secs(domain, sent) ==
    [ name |-> domain.name,
      url |-> domain.url,
      success |-> sent.ok /\ is_success(sent.status),
      error |-> IF sent.ok
                THEN IF is_success(sent.status) THEN None
                     ELSE Some("HTTP " \o ToString(sent.status))
                ELSE Some(IF sent.e.is_timeout THEN "Timeout"
                          ELSE IF sent.e.is_connect THEN "Connection failed"
                          ELSE IF sent.e.is_request THEN "Request failed"
                          ELSE "Error: " \o sent.e.display),
      status_code |-> IF sent.ok THEN Some(sent.status) ELSE None,
      response_time_ms |-> Some(sent.elapsed \div 1000) ]

\* Mutant of check_domain: is_request() is tested before is_connect().
check_domain_request_first(domain, sent) ==
    [ name |-> domain.name,
      url |-> domain.url,
      success |-> sent.ok /\ is_success(sent.status),
      error |-> IF sent.ok
                THEN IF is_success(sent.status) THEN None
                     ELSE Some("HTTP " \o ToString(sent.status))
                ELSE Some(IF sent.e.is_timeout THEN "Timeout"
                          ELSE IF sent.e.is_request THEN "Request failed"
                          ELSE IF sent.e.is_connect THEN "Connection failed"
                          ELSE "Error: " \o sent.e.display),
      status_code |-> IF sent.ok THEN Some(sent.status) ELSE None,
      response_time_ms |-> Some(sent.elapsed) ]

\* Mutant of check_domain: no error text is recorded for an HTTP error status.
check_domain_no_http_error(domain, sent) ==
    [ name |-> domain.name,
      url |-> domain.url,
      success |-> sent.ok /\ is_success(sent.status),
      error |-> IF sent.ok
                THEN None
                ELSE Some(IF sent.e.is_timeout THEN "Timeout"
                          ELSE IF sent.e.is_connect THEN "Connection failed"
                          ELSE IF sent.e.is_request THEN "Request failed"
                          ELSE "Error: " \o sent.e.display),
      status_code |-> IF sent.ok THEN Some(sent.status) ELSE None,
      response_time_ms |-> Some(sent.elapsed) ]

\* Mutant of check_domain: is_connect() is tested before is_timeout().
check_domain_connect_first(domain, sent) ==
    [ name |-> domain.name,
      url |-> domain.url,
      success |-> sent.ok /\ is_success(sent.status),
      error |-> IF sent.ok
                THEN IF is_success(sent.status) THEN None
                     ELSE Some("HTTP " \o ToString(sent.status))
                ELSE Some(IF sent.e.is_connect THEN "Connection failed"
                          ELSE IF sent.e.is_timeout THEN "Timeout"
                          ELSE IF sent.e.is_request THEN "Request failed"
                          ELSE "Error: " \o sent.e.display),
      status_code |-> IF sent.ok THEN Some(sent.status) ELSE None,
      response_time_ms |-> Some(sent.elapsed) ]

\* async fn check_domain, as a function of what the GET yielded.
check_domain(domain, sent) ==
    IF sent.ok
    THEN [ name |-> domain.name,
           url |-> domain.url,
           success |-> is_success(sent.status),
           error |-> IF is_success(sent.status)
                     THEN None
                     ELSE Some("HTTP " \o ToString(sent.status)),
           status_code |-> Some(sent.status),
           response_time_ms |-> Some(sent.elapsed) ]
    ELSE [ name |-> domain.name,
           url |-> domain.url,
           success |-> FALSE,
           error |-> Some(IF sent.e.is_timeout THEN "Timeout"
                          ELSE IF sent.e.is_connect THEN "Connection failed"
                          ELSE IF sent.e.is_request THEN "Request failed"
                          ELSE "Error: " \o sent.e.display),
           status_code |-> None,
           response_time_ms |-> Some(sent.elapsed) ]

\* results.iter().filter(|r| pred(r)).cloned().collect()
RECURSIVE FilterSeq(_, _)
FilterSeq(s, keepSuccess) ==
    IF s = <<>> THEN <<>>
    ELSE IF s[1].success = keepSuccess
         THEN <<s[1]>> \o FilterSeq(Tail(s), keepSuccess)
         ELSE FilterSeq(Tail(s), keepSuccess)

VARIABLES
    configValid,   \* whether domains.json parses as DomainsConfig
    domains,       \* config.domains
    webhookSet,    \* whether SLACK_WEBHOOK_URL is set in the environment
    client,        \* the reqwest Client of the handler: "none", "built", "failed"
    pc,            \* where the handler is
    tasks,         \* per domain: the spawned task running check_domain
    gets,          \* per domain: number of GETs sent so far
    joined,        \* number of tasks the collect loop has awaited
    results,       \* Vec<CheckResult> collected
    failures,      \* Vec<CheckResult> filtered
    posts,         \* number of POSTs sent to the webhook
    message,       \* Option<SlackMessage>: the message send_slack_notification built
    postOutcome,   \* what the POST yielded
    notifyResult,  \* what send_slack_notification returned
    stderr,        \* lines written with eprintln!
    response       \* what handler returned

vars == <<configValid, domains, webhookSet, client, pc, tasks, gets, joined,
          results, failures, message, posts, postOutcome, notifyResult, stderr, response>>

N == Len(domains)

NoTask == [st |-> "unspawned", sent |-> None, out |-> None]

NoResponse == [kind |-> "none", status |-> 0, body |-> None]

Init ==
    /\ configValid \in BOOLEAN
    /\ domains \in DomainLists
    /\ (~configValid => domains = <<>>)
    /\ webhookSet \in BOOLEAN
    /\ client = "none"
    /\ pc = "parse"
    /\ tasks = [i \in 1..Len(domains) |-> NoTask]
    /\ gets = [i \in 1..Len(domains) |-> 0]
    /\ joined = 0
    /\ results = <<>>
    /\ failures = <<>>
    /\ message = None
    /\ posts = 0
    /\ postOutcome = "none"
    /\ notifyResult = "none"
    /\ stderr = <<>>
    /\ response = NoResponse

\* Number of tasks pushed onto `tasks` by the spawn loop so far.
Spawned == Cardinality({ i \in 1..N : tasks[i].st # "unspawned" })

\* Error::from(message) returned by handler through `?`.
ErrResponse(msg) == [kind |-> "err", status |-> 0, body |-> Some(msg)]

\* Mutant of Summary: total_checked taken from the configured list instead
\* of from the collected results.
SummaryOfConfigured(rs, fs) ==
    [ total_checked |-> N,
      successful |-> Len(FilterSeq(rs, TRUE)),
      failed |-> Len(fs),
      results |-> rs ]

\* serde_json::json!({...}) of the summary; the timestamp is wall-clock time
\* and is not part of the state.
Summary(rs, fs) ==
    [ total_checked |-> Len(rs),
      successful |-> Len(FilterSeq(rs, TRUE)),
      failed |-> Len(fs),
      results |-> rs ]

\* serde_json::from_str(config_content) ... ?
ParseConfig ==
    /\ pc = "parse"
    /\ IF configValid
       THEN /\ pc' = "client"
            /\ UNCHANGED response
       ELSE /\ pc' = "done"
            /\ response' = ErrResponse("Failed to parse domains.json")
    /\ UNCHANGED <<configValid, domains, webhookSet, client, message,
                   tasks, gets, joined, results,
                   failures, posts, postOutcome, notifyResult, stderr>>

\* Client::builder().user_agent(..).build() ... ?
BuildClient ==
    /\ pc = "client"
    /\ \E built \in BOOLEAN :
         IF built
         THEN /\ client' = "built"
              /\ pc' = IF N = 0 THEN "filter" ELSE "spawn"
              /\ UNCHANGED response
         ELSE /\ client' = "failed"
              /\ pc' = "done"
              /\ response' = ErrResponse("builder error")
    /\ UNCHANGED <<configValid, domains, webhookSet, message, tasks, gets, joined, results,
                   failures, posts, postOutcome, notifyResult, stderr>>

\* One iteration of `for domain in &config.domains { tasks.push(tokio::spawn(..)) }`.
SpawnTask ==
    /\ pc = "spawn"
    /\ LET i == Spawned + 1 IN
         /\ tasks' = [tasks EXCEPT ![i].st = "ready"]
         /\ pc' = IF i = N THEN "join" ELSE "spawn"
    /\ UNCHANGED <<configValid, domains, webhookSet, client, message,
                   gets, joined, results,
                   failures, posts, postOutcome, notifyResult, stderr, response>>

\* Task i, check_domain up to the await: client.get(url).timeout(timeout).send()
ProbeSend(i) ==
    /\ tasks[i].st = "ready"
    /\ tasks' = [tasks EXCEPT ![i].st = "awaiting"]
    /\ gets' = [gets EXCEPT ![i] = @ + 1]
    /\ UNCHANGED <<configValid, domains, webhookSet, client, message,
                   pc, joined, results,
                   failures, posts, postOutcome, notifyResult, stderr, response>>

\* Mutant of ProbeComplete: every task reads the domain of the last loop
\* iteration instead of its own clone.
ProbeCompleteSharedDomain(i) ==
    /\ tasks[i].st = "awaiting"
    /\ \E sent \in SendOutcomes(domains[N]) :
         tasks' = [tasks EXCEPT ![i] =
                     [st |-> "returned", sent |-> Some(sent),
                      out |-> Some(check_domain(domains[N], sent))]]
    /\ UNCHANGED <<configValid, domains, webhookSet, client, message,
                   pc, gets, joined, results,
                   failures, posts, postOutcome, notifyResult, stderr, response>>

\* Mutant of ProbeComplete: a GET that yields an error is sent once more.
ProbeCompleteRetry(i) ==
    /\ tasks[i].st = "awaiting"
    /\ \E sent \in SendOutcomes(domains[i]) :
         IF ~sent.ok /\ gets[i] < 2
         THEN tasks' = [tasks EXCEPT ![i].st = "ready"]
         ELSE tasks' = [tasks EXCEPT ![i] =
                          [st |-> "returned", sent |-> Some(sent),
                           out |-> Some(check_domain(domains[i], sent))]]
    /\ UNCHANGED <<configValid, domains, webhookSet, client, message,
                   pc, gets, joined, results,
                   failures, posts, postOutcome, notifyResult, stderr, response>>

\* Task i, check_domain from the await on: the GET yields a response or an
\* error and the task returns its CheckResult.
ProbeComplete(i) ==
    /\ tasks[i].st = "awaiting"
    /\ \E sent \in SendOutcomes(domains[i]) :
         tasks' = [tasks EXCEPT ![i] =
                     [st |-> "returned", sent |-> Some(sent),
                      out |-> Some(check_domain(domains[i], sent))]]
    /\ UNCHANGED <<configValid, domains, webhookSet, client, message,
                   pc, gets, joined, results,
                   failures, posts, postOutcome, notifyResult, stderr, response>>

\* Task i panics while polling the request: its JoinHandle yields Err(JoinError).
ProbeCrash(i) ==
    /\ tasks[i].st = "awaiting"
    /\ tasks' = [tasks EXCEPT ![i].st = "crashed"]
    /\ UNCHANGED <<configValid, domains, webhookSet, client, message,
                   pc, gets, joined, results,
                   failures, posts, postOutcome, notifyResult, stderr, response>>

\* Mutant of JoinTask: the loop does not wait for a task that is still
\* running and moves on without its result.
JoinTaskNoWait ==
    /\ pc = "join"
    /\ LET i == joined + 1 IN
         /\ IF tasks[i].st = "returned"
            THEN /\ results' = Append(results, tasks[i].out[1])
                 /\ UNCHANGED stderr
            ELSE /\ stderr' = Append(stderr, "Task failed")
                 /\ UNCHANGED results
         /\ joined' = i
         /\ pc' = IF i = N THEN "filter" ELSE "join"
    /\ UNCHANGED <<configValid, domains, webhookSet, client, message,
                   tasks, gets,
                   failures, posts, postOutcome, notifyResult, response>>

\* Mutant of JoinTask: a crashed task is recorded as a synthetic failure.
JoinTaskSynthetic ==
    /\ pc = "join"
    /\ LET i == joined + 1 IN
         /\ tasks[i].st \in {"returned", "crashed"}
         /\ results' = Append(results,
                IF tasks[i].st = "returned"
                THEN tasks[i].out[1]
                ELSE [ name |-> domains[i].name, url |-> domains[i].url,
                       success |-> FALSE, error |-> Some("internal task failure"),
                       status_code |-> None, response_time_ms |-> None ])
         /\ stderr' = IF tasks[i].st = "crashed"
                      THEN Append(stderr, "Task failed") ELSE stderr
         /\ joined' = i
         /\ pc' = IF i = N THEN "filter" ELSE "join"
    /\ UNCHANGED <<configValid, domains, webhookSet, client, message,
                   tasks, gets,
                   failures, posts, postOutcome, notifyResult, response>>

\* Mutant of JoinTask: a result is inserted at the front of results.
JoinTaskPrepend ==
    /\ pc = "join"
    /\ LET i == joined + 1 IN
         /\ tasks[i].st \in {"returned", "crashed"}
         /\ IF tasks[i].st = "returned"
            THEN /\ results' = <<tasks[i].out[1]>> \o results
                 /\ UNCHANGED stderr
            ELSE /\ stderr' = Append(stderr, "Task failed")
                 /\ UNCHANGED results
         /\ joined' = i
         /\ pc' = IF i = N THEN "filter" ELSE "join"
    /\ UNCHANGED <<configValid, domains, webhookSet, client, message,
                   tasks, gets, failures, posts, postOutcome, notifyResult, response>>

\* One iteration of `for task in tasks { match task.await {..} }`: the await
\* completes only when the task has returned or crashed.
JoinTask ==
    /\ pc = "join"
    /\ LET i == joined + 1 IN
         /\ tasks[i].st \in {"returned", "crashed"}
         /\ IF tasks[i].st = "returned"
            THEN /\ results' = Append(results, tasks[i].out[1])
                 /\ UNCHANGED stderr
            ELSE /\ stderr' = Append(stderr, "Task failed")
                 /\ UNCHANGED results
         /\ joined' = i
         /\ pc' = IF i = N THEN "filter" ELSE "join"
    /\ UNCHANGED <<configValid, domains, webhookSet, client, message,
                   tasks, gets,
                   failures, posts, postOutcome, notifyResult, response>>

\* Mutant of FilterFailures: the filter is left out.
FilterFailuresKeepAll ==
    /\ pc = "filter"
    /\ failures' = results
    /\ pc' = "notify"
    /\ UNCHANGED <<configValid, domains, webhookSet, client, message,
                   tasks, gets, joined, results,
                   posts, postOutcome, notifyResult, stderr, response>>

\* let failures = results.iter().filter(|r| !r.success).cloned().collect();
FilterFailures ==
    /\ pc = "filter"
    /\ failures' = FilterSeq(results, FALSE)
    /\ pc' = "notify"
    /\ UNCHANGED <<configValid, domains, webhookSet, client, message,
                   tasks, gets, joined, results,
                   posts, postOutcome, notifyResult, stderr, response>>

\* Mutant of Notify: the else branch that reports the missing variable is left out.
NotifySilent ==
    /\ pc = "notify"
    /\ pc' = IF failures # <<>> /\ webhookSet THEN "send_slack_notification" ELSE "summary"
    /\ UNCHANGED <<configValid, domains, webhookSet, client, message,
                   tasks, gets, joined, results,
                   failures, posts, postOutcome, notifyResult, stderr, response>>

\* if !failures.is_empty() { if let Ok(webhook_url) = env::var(..) {..} else {..} }
Notify ==
    /\ pc = "notify"
    /\ IF failures # <<>>
       THEN IF webhookSet
            THEN /\ pc' = "send_slack_notification"
                 /\ UNCHANGED stderr
            ELSE /\ stderr' = Append(stderr, "SLACK_WEBHOOK_URL not set, skipping notification")
                 /\ pc' = "summary"
       ELSE /\ pc' = "summary"
            /\ UNCHANGED stderr
    /\ UNCHANGED <<configValid, domains, webhookSet, client, message,
                   tasks, gets, joined, results,
                   failures, posts, postOutcome, notifyResult, response>>

\* Utc::now().format("%Y-%m-%d %H:%M:%S UTC").to_string()
CheckTimes == {"2024-05-01 12:00:00 UTC"}

\* Mutant of Plural: the plural wording whatever the count.
PluralAlways(failure_count) == "s are"

\* if failure_count == 1 { " is" } else { "s are" }
Plural(failure_count) == IF failure_count = 1 THEN " is" ELSE "s are"

\* header_text; ":rotating_light:" stands for the emoji U+1F6A8 of the source.
HeaderText(failure_count) ==
    ":rotating_light: *Uptime Alert: " \o ToString(failure_count) \o " domain"
        \o Plural(failure_count) \o " down*"

\* struct SlackText
SlackText(text_type, text) == [text_type |-> text_type, text |-> text]

\* The three blocks of `let mut blocks = vec![..]`.
HeadBlocks(failure_count, timestamp) ==
    << [ block_type |-> "header",
         text |-> Some(SlackText("plain_text",
                    "Uptime Alert: " \o ToString(failure_count) \o " domain"
                        \o Plural(failure_count) \o " down")),
         fields |-> None ],
       [ block_type |-> "section",
         text |-> Some(SlackText("mrkdwn", "*Check Time:* " \o timestamp)),
         fields |-> None ],
       [ block_type |-> "divider", text |-> None, fields |-> None ] >>

\* Option::unwrap_or
unwrap_or(opt, default) == IF opt = None THEN default ELSE opt[1]

\* The block pushed for one failure.
FailureBlock(failure) ==
    [ block_type |-> "section",
      text |-> None,
      fields |-> Some(<<
        SlackText("mrkdwn", "*Domain:*\n" \o failure.name),
        SlackText("mrkdwn", "*Error:*\n" \o unwrap_or(failure.error, "Unknown error")),
        SlackText("mrkdwn", "*URL:*\n<" \o failure.url \o "|" \o failure.url \o ">"),
        SlackText("mrkdwn", "*Response Time:*\n"
                              \o ToString(unwrap_or(failure.response_time_ms, 0)) \o "ms") >>) ]

\* Mutant of FailureBlocks: each block is inserted after the divider instead
\* of pushed at the end.
RECURSIVE FailureBlocksInserted(_)
FailureBlocksInserted(fs) ==
    IF fs = <<>> THEN <<>>
    ELSE FailureBlocksInserted(Tail(fs)) \o <<FailureBlock(fs[1])>>

\* for failure in failures { blocks.push(..) }
RECURSIVE FailureBlocks(_)
FailureBlocks(fs) ==
    IF fs = <<>> THEN <<>>
    ELSE <<FailureBlock(fs[1])>> \o FailureBlocks(Tail(fs))

\* struct SlackMessage { text: header_text, blocks }
SlackMessageOf(fs, timestamp) ==
    [ text |-> HeaderText(Len(fs)),
      blocks |-> HeadBlocks(Len(fs), timestamp) \o FailureBlocks(fs) ]

\* send_slack_notification up to the await: the empty check, the message, and
\* client.post(webhook_url).json(&message).send()
SendSlackNotification ==
    /\ pc = "send_slack_notification"
    /\ IF failures = <<>>
       THEN /\ notifyResult' = "Ok"
            /\ pc' = "summary"
            /\ UNCHANGED <<message, posts>>
       ELSE /\ \E timestamp \in CheckTimes :
                 message' = Some(SlackMessageOf(failures, timestamp))
            /\ posts' = posts + 1
            /\ pc' = "posting"
            /\ UNCHANGED notifyResult
    /\ UNCHANGED <<configValid, domains, webhookSet, client,
                   tasks, gets, joined, results,
                   failures, postOutcome, stderr, response>>

\* What `.send().await` of the POST can yield: a response with a success
\* status, a response with another status, or a transport error.
PostOutcomes == {"success_status", "other_status", "network_error"}

\* Mutant of PostCompletes: the handler propagates the notifier's error with `?`.
PostCompletesPropagate ==
    /\ pc = "posting"
    /\ \E o \in PostOutcomes :
         /\ postOutcome' = o
         /\ notifyResult' = IF o = "network_error" THEN "Err" ELSE "Ok"
         /\ IF o = "network_error"
            THEN /\ pc' = "done"
                 /\ response' = ErrResponse("error sending request")
            ELSE /\ pc' = "summary"
                 /\ UNCHANGED response
    /\ UNCHANGED <<configValid, domains, webhookSet, client, message,
                   tasks, gets, joined, results,
                   failures, posts, stderr>>

\* send_slack_notification from the await on (`.map_err(..)?; Ok(())`), and
\* the handler's `if let Err(e) = ... { eprintln!(..) }`.
PostCompletes ==
    /\ pc = "posting"
    /\ \E o \in PostOutcomes :
         /\ postOutcome' = o
         /\ notifyResult' = IF o = "network_error" THEN "Err" ELSE "Ok"
         /\ stderr' = IF o = "network_error"
                      THEN Append(stderr, "Failed to send Slack notification")
                      ELSE stderr
    /\ pc' = "summary"
    /\ UNCHANGED <<configValid, domains, webhookSet, client, message,
                   tasks, gets, joined, results,
                   failures, posts, response>>

\* The summary and Ok(Response::builder().status(StatusCode::OK)...body(..))
Respond ==
    /\ pc = "summary"
    /\ response' = [kind |-> "ok", status |-> 200, body |-> Some(Summary(results, failures))]
    /\ pc' = "done"
    /\ UNCHANGED <<configValid, domains, webhookSet, client, message,
                   tasks, gets, joined, results,
                   failures, posts, postOutcome, notifyResult, stderr>>

Next ==
    \/ ParseConfig
    \/ BuildClient
    \/ SpawnTask
    \/ \E i \in 1..N : ProbeSend(i)
    \/ \E i \in 1..N : ProbeComplete(i)
    \/ \E i \in 1..N : ProbeCrash(i)
    \/ JoinTask
    \/ FilterFailures
    \/ Notify
    \/ SendSlackNotification
    \/ PostCompletes
    \/ Respond

Spec == Init /\ [][Next]_vars

\* The handler's own steps always run to their next await; a GET always ends,
\* by a response, an error or its deadline (`.timeout(timeout)`), unless the
\* task crashes.  The POST is sent by Client::new() with no deadline set, so
\* nothing obliges the webhook's answer to arrive.
FairSpec ==
    /\ Spec
    /\ WF_vars(ParseConfig)
    /\ WF_vars(BuildClient)
    /\ WF_vars(SpawnTask)
    /\ \A i \in 1..MaxTargets : WF_vars(i \in 1..N /\ ProbeSend(i))
    /\ \A i \in 1..MaxTargets : WF_vars(i \in 1..N /\ (ProbeComplete(i) \/ ProbeCrash(i)))
    /\ WF_vars(JoinTask)
    /\ WF_vars(FilterFailures)
    /\ WF_vars(Notify)
    /\ WF_vars(SendSlackNotification)
    /\ WF_vars(Respond)

(***************************************************************************)
(* Properties                                                              *)
(***************************************************************************)

\* Both fallible steps before the fan-out succeeded.
BootstrapOk == configValid /\ client = "built"

\* The run returned Ok(response).
Returned == pc = "done" /\ response.kind = "ok"

Terminal(i) == tasks[i].st \in {"returned", "crashed"}

CrashedTasks == { i \in 1..N : tasks[i].st = "crashed" }

ReturnedTasks == { i \in 1..N : tasks[i].st = "returned" }

Logged(line) == \E k \in 1..Len(stderr) : stderr[k] = line

Occurrences(seq, v) == Cardinality({ k \in 1..Len(seq) : seq[k] = v })

\* C1: in every summary a run returns, total_checked = successful + failed,
\* and successful and failed are the numbers of outcomes in results with
\* success = true and success = false.
C1_CountsPartitionResults ==
    response.kind = "ok" =>
        LET s == response.body[1] IN
          /\ s.total_checked = s.successful + s.failed
          /\ s.total_checked = Len(s.results)
          /\ s.successful = Cardinality({ k \in 1..Len(s.results) : s.results[k].success })
          /\ s.failed = Cardinality({ k \in 1..Len(s.results) : ~s.results[k].success })

\* A returned summary of a run with a success, a failure and nothing else.
C1_Witness ==
    /\ Returned
    /\ response.body[1].successful = 1
    /\ response.body[1].failed = 1
    /\ CrashedTasks = {}

\* C2: the partition, the POST and the summary come only after every spawned
\* task has returned or crashed and has been awaited; no probe is pending
\* while the POST is in flight.
C2_DownstreamAfterJoin ==
    (\/ pc \in {"filter", "notify", "send_slack_notification", "posting", "summary"}
     \/ failures # <<>>
     \/ posts > 0
     \/ response.kind = "ok")
    => /\ joined = N
       /\ \A i \in 1..N : Terminal(i)

\* The POST is in flight after two probes, one of which crashed.
C2_Witness ==
    /\ pc = "posting"
    /\ N = 2
    /\ CrashedTasks # {}
    /\ ReturnedTasks # {}

\* C3: a POST is made only if some outcome in results has success = false;
\* with an empty failure list no POST is made and no notification error is
\* reported.
C3_PostOnlyOnFailure ==
    /\ posts > 0 => \E k \in 1..Len(results) : ~results[k].success
    /\ (pc \in {"summary", "done"} /\ BootstrapOk /\ failures = <<>>)
         => /\ posts = 0
            /\ notifyResult # "Err"
            /\ ~Logged("Failed to send Slack notification")

\* An all-success run with the webhook configured has returned without a POST.
C3_Witness ==
    /\ Returned
    /\ webhookSet
    /\ N >= 1
    /\ \A k \in 1..Len(results) : results[k].success
    /\ Len(results) = N
    /\ posts = 0

\* C4: once bootstrap has succeeded the run returns status 200 with the full
\* summary, whatever the checks, the crashes, the webhook and the delivery
\* did; only a bootstrap failure yields an error.
C4_OnlyBootstrapFails ==
    /\ BootstrapOk => response.kind # "err"
    /\ response.kind = "err" => (~configValid \/ client = "failed")
    /\ pc = "done" =>
         IF BootstrapOk
         THEN /\ response.kind = "ok"
              /\ response.status = 200
              /\ response.body[1].results = results
              /\ response.body[1].total_checked = Len(results)
              /\ response.body[1].failed = Len(failures)
         ELSE response.kind = "err"

\* A run with a crashed probe, a failed check and a failed delivery has returned.
C4_Witness ==
    /\ Returned
    /\ CrashedTasks # {}
    /\ failures # <<>>
    /\ notifyResult = "Err"

\* C5: every run whose bootstrap succeeds eventually returns.
C5_RunTerminates == BootstrapOk ~> pc = "done"

\* C6: a failed delivery, by a transport error or by a non-success status of
\* the webhook, is reported as an error by the notifier, and the run still
\* returns its summary.
C6_DeliveryFailureReported ==
    /\ postOutcome \in {"network_error", "other_status"} => notifyResult = "Err"
    /\ (pc = "done" /\ postOutcome # "none") => response.kind = "ok"

\* C7, as claimed: without a webhook no POST is made, the run returns its
\* summary, and the warning is logged, whatever the outcomes.
C7_WarningInEveryRun ==
    (pc = "done" /\ BootstrapOk /\ ~webhookSet)
      => /\ posts = 0
         /\ response.kind = "ok"
         /\ Logged("SLACK_WEBHOOK_URL not set, skipping notification")

\* C7, amended: without a webhook no POST is made and the run returns its
\* summary; the warning is logged, once, exactly in the runs that have a
\* failed outcome.
C7_WarningWhenFailures ==
    /\ ~webhookSet => posts = 0 /\ notifyResult = "none"
    /\ (pc = "done" /\ BootstrapOk /\ ~webhookSet)
         => /\ response.kind = "ok"
            /\ Occurrences(stderr, "SLACK_WEBHOOK_URL not set, skipping notification")
                 = IF \E k \in 1..Len(results) : ~results[k].success THEN 1 ELSE 0

\* A run without webhook and with a failed check has returned.
C7_Witness ==
    /\ Returned
    /\ ~webhookSet
    /\ failures # <<>>
    /\ Logged("SLACK_WEBHOOK_URL not set, skipping notification")

\* C8: a crashed task leaves no entry in results and one log line, the run
\* returns, total_checked is the number of targets minus the crashed ones,
\* and results holds the outcome of every other task exactly once.
C8_CrashedTaskOmitted ==
    (pc \in {"filter", "notify", "send_slack_notification", "posting", "summary"}
       \/ (pc = "done" /\ BootstrapOk))
      => /\ Len(results) = N - Cardinality(CrashedTasks)
         /\ Occurrences(stderr, "Task failed") = Cardinality(CrashedTasks)
         /\ \A i \in ReturnedTasks :
              Occurrences(results, tasks[i].out[1])
                = Cardinality({ j \in ReturnedTasks : tasks[j].out = tasks[i].out })
         /\ \A k \in 1..Len(results) :
              \E i \in ReturnedTasks : tasks[i].out[1] = results[k]
         /\ pc = "done" =>
              /\ response.kind = "ok"
              /\ response.body[1].total_checked = N - Cardinality(CrashedTasks)

\* One of two probes crashed and the run has returned.
C8_Witness ==
    /\ Returned
    /\ N = 2
    /\ Cardinality(CrashedTasks) = 1
    /\ response.body[1].total_checked = 1

\* Position in results of the outcome of task i, among the tasks awaited.
ResultIndex(i) == Cardinality({ j \in 1..i : tasks[j].st = "returned" })

\* C9: the outcome recorded for a target is the one its own probe computed
\* from its own domain and its own GET, whatever the other tasks did, and
\* every awaited task that returned has its outcome in results.
C9_OutcomeOfOwnProbe ==
    /\ Len(results) = Cardinality({ j \in 1..joined : tasks[j].st = "returned" })
    /\ \A i \in 1..joined :
         tasks[i].st = "returned" =>
           results[ResultIndex(i)] = check_domain(domains[i], tasks[i].sent[1])

\* Two different targets, the first timed out or crashed, the second recorded
\* as a success.
C9_Witness ==
    /\ Returned
    /\ N = 2
    /\ domains[1] # domains[2]
    /\ \/ tasks[1].st = "crashed"
       \/ tasks[1].st = "returned" /\ tasks[1].out[1].error = Some("Timeout")
    /\ tasks[2].st = "returned"
    /\ results[Len(results)].success
    /\ results[Len(results)].name = domains[2].name

\* C10: no target is sent more than one GET and the webhook no more than one
\* POST; when the join is complete every target has been sent exactly one.
C10_NoRetry ==
    /\ \A i \in 1..N : gets[i] <= 1
    /\ posts <= 1
    /\ (pc \in {"filter", "notify", "send_slack_notification", "posting", "summary"}
          \/ (pc = "done" /\ BootstrapOk))
         => \A i \in 1..N : gets[i] = 1

\* A run with a failed check and a failed POST has returned.
C10_Witness ==
    /\ Returned
    /\ N >= 1
    /\ \E i \in 1..N : tasks[i].st = "returned" /\ ~tasks[i].out[1].success
    /\ postOutcome = "network_error"
    /\ posts = 1

\* The CheckResult task i returned and what its GET had yielded.
OutOf(i) == tasks[i].out[1]

SentOf(i) == tasks[i].sent[1]

\* C11: for every status code a probe receives, success is (200 <= code <= 299),
\* error is None on success and "HTTP <code>" otherwise, status_code is the
\* code and response_time is set; 404 gives success = false, "HTTP 404", 404.
C11_StatusClassification ==
    \A i \in ReturnedTasks :
        SentOf(i).ok =>
          LET code == SentOf(i).status
              r == OutOf(i) IN
            /\ r.success = (code \in 200..299)
            /\ r.success => r.error = None
            /\ ~r.success => r.error = Some("HTTP " \o ToString(code))
            /\ r.status_code = Some(code)
            /\ r.response_time_ms # None
            /\ code = 404 => r = [ name |-> domains[i].name, url |-> domains[i].url,
                                   success |-> FALSE, error |-> Some("HTTP 404"),
                                   status_code |-> Some(404),
                                   response_time_ms |-> Some(SentOf(i).elapsed) ]

\* A run whose results hold the outcome of a 404 and the outcome of a 2xx.
C11_Witness ==
    /\ Returned
    /\ \E k \in 1..Len(results) : results[k].error = Some("HTTP 404")
    /\ \E k \in 1..Len(results) : results[k].success /\ results[k].status_code = Some(299)

\* C12: a probe that ran into its deadline gives success = false, error
\* "Timeout", no status_code, and a response_time of at least timeout_seconds
\* in milliseconds.
C12_TimeoutOutcome ==
    \A i \in ReturnedTasks :
        (~SentOf(i).ok /\ SentOf(i).e.is_timeout) =>
           /\ OutOf(i).success = FALSE
           /\ OutOf(i).error = Some("Timeout")
           /\ OutOf(i).status_code = None
           /\ OutOf(i).response_time_ms # None
           /\ OutOf(i).response_time_ms[1] >= domains[i].timeout_seconds * 1000

\* A run whose results hold a timeout of the target with the default timeout.
C12_Witness ==
    /\ Returned
    /\ \E k \in 1..Len(results) :
         /\ results[k].name = "B"
         /\ results[k].error = Some("Timeout")
         /\ results[k].response_time_ms = Some(default_timeout * 1000 + 1)

\* C13, as claimed: a GET that failed to connect, in whatever way, gives
\* success = false, no status_code and error "Connection failed".
C13_EveryConnectFailure ==
    \A i \in ReturnedTasks :
        (~SentOf(i).ok /\ SentOf(i).e.is_connect) =>
           /\ OutOf(i).success = FALSE
           /\ OutOf(i).status_code = None
           /\ OutOf(i).error = Some("Connection failed")

\* C13, amended: a GET that failed to connect gives success = false and no
\* status_code; its error is "Connection failed" unless the failure is also
\* a timeout, and then it is "Timeout".
C13_ConnectFailureUnlessTimeout ==
    \A i \in ReturnedTasks :
        (~SentOf(i).ok /\ SentOf(i).e.is_connect) =>
           /\ OutOf(i).success = FALSE
           /\ OutOf(i).status_code = None
           /\ OutOf(i).error =
                IF SentOf(i).e.is_timeout THEN Some("Timeout") ELSE Some("Connection failed")

\* A run whose results hold the outcome of a refused connection.
C13_Witness ==
    /\ Returned
    /\ \E i \in ReturnedTasks :
         /\ SentOf(i).e.is_connect
         /\ ~SentOf(i).e.is_timeout
         /\ \E k \in 1..Len(results) :
              /\ results[k] = OutOf(i)
              /\ results[k].error = Some("Connection failed")

\* C14: every outcome in results is either a success with a status_code or a
\* failure with an error, never both and never neither; error is present
\* exactly when success is false; response_time is present; a crashed task
\* has no outcome.
C14_OutcomeShape ==
    /\ \A k \in 1..Len(results) :
         LET r == results[k] IN
           /\ (r.success /\ r.status_code # None) # (~r.success /\ r.error # None)
           /\ (r.error # None) <=> ~r.success
           /\ r.response_time_ms # None
    /\ Len(results) = Cardinality({ i \in 1..joined : tasks[i].st = "returned" })

\* A run with a crashed task whose results hold an HTTP error, which has both
\* a status_code and an error.
C14_Witness ==
    /\ Returned
    /\ CrashedTasks # {}
    /\ \E k \in 1..Len(results) :
         /\ ~results[k].success
         /\ results[k].status_code = Some(300)
         /\ results[k].error = Some("HTTP 300")

\* Positions in results of the outcomes with success = false.
FailedPositions == { k \in 1..Len(results) : ~results[k].success }

\* The a-th smallest member of FailedPositions.
FailedPosition(a) ==
    CHOOSE k \in FailedPositions : Cardinality({ j \in FailedPositions : j <= k }) = a

\* C15: a built message holds the header block, the timestamp section and the
\* divider, then one block per failure, in the order of the failed outcomes
\* of results: 3 + failed blocks, the i-th entry carrying the name, error,
\* URL and response time of the i-th failure.
C15_OneBlockPerFailureInOrder ==
    message # None =>
      LET blocks == message[1].blocks IN
        /\ Len(failures) = Cardinality(FailedPositions)
        /\ Len(blocks) = 3 + Cardinality(FailedPositions)
        /\ response.kind = "ok" => Len(blocks) = 3 + response.body[1].failed
        /\ blocks[1].block_type = "header" /\ blocks[1].text # None /\ blocks[1].fields = None
        /\ blocks[2].block_type = "section" /\ blocks[2].fields = None
        /\ \E timestamp \in CheckTimes :
             blocks[2].text = Some([text_type |-> "mrkdwn",
                                    text |-> "*Check Time:* " \o timestamp])
        /\ blocks[3] = [block_type |-> "divider", text |-> None, fields |-> None]
        /\ \A a \in 1..Cardinality(FailedPositions) :
             LET f == results[FailedPosition(a)]
                 b == blocks[3 + a] IN
               /\ failures[a] = f
               /\ b.block_type = "section"
               /\ b.text = None
               /\ b.fields # None
               /\ Len(b.fields[1]) = 4
               /\ \A x \in 1..4 : b.fields[1][x].text_type = "mrkdwn"
               /\ b.fields[1][1].text = "*Domain:*\n" \o f.name
               /\ b.fields[1][2].text = "*Error:*\n" \o f.error[1]
               /\ b.fields[1][3].text = "*URL:*\n<" \o f.url \o "|" \o f.url \o ">"
               /\ b.fields[1][4].text =
                    "*Response Time:*\n" \o ToString(f.response_time_ms[1]) \o "ms"

\* A message for two failures of two different targets, A before B.
C15_Witness ==
    /\ Returned
    /\ message # None
    /\ Len(message[1].blocks) = 5
    /\ message[1].blocks[4].fields[1][1].text = "*Domain:*\nA"
    /\ message[1].blocks[4].fields[1][2].text = "*Error:*\nHTTP 404"
    /\ message[1].blocks[5].fields[1][1].text = "*Domain:*\nB"
    /\ message[1].blocks[5].fields[1][4].text = "*Response Time:*\n10001ms"

\* "1 domain is down" or "<n> domains are down".
Headline(n) == IF n = 1 THEN "1 domain is down" ELSE ToString(n) \o " domains are down"

\* C16: the headline is "1 domain is down" for one failure and "N domains are
\* down" for N > 1, N being the failed count of the summary; the header block
\* and the message's fallback text carry the same count and wording.
C16_HeadlinePlural ==
    message # None =>
      LET n == Cardinality(FailedPositions) IN
        /\ n >= 1
        /\ response.kind = "ok" => response.body[1].failed = n
        /\ message[1].blocks[1].text =
             Some([text_type |-> "plain_text", text |-> "Uptime Alert: " \o Headline(n)])
        /\ message[1].text = ":rotating_light: *Uptime Alert: " \o Headline(n) \o "*"

\* A message for two failures, with the plural headline.
C16_Witness ==
    /\ Returned
    /\ message # None
    /\ response.body[1].failed = 2
    /\ message[1].blocks[1].text[1].text = "Uptime Alert: 2 domains are down"
    /\ message[1].text = ":rotating_light: *Uptime Alert: 2 domains are down*"

\* Name and URL of the first i configured targets whose task did not crash,
\* in configured order.
RECURSIVE ConfiguredKept(_)
ConfiguredKept(i) ==
    IF i = 0 THEN <<>>
    ELSE IF tasks[i].st = "crashed"
         THEN ConfiguredKept(i - 1)
         ELSE Append(ConfiguredKept(i - 1), <<domains[i].name, domains[i].url>>)

\* The partition and everything after it.
AfterFilter ==
    \/ pc \in {"notify", "send_slack_notification", "posting", "summary"}
    \/ pc = "done" /\ BootstrapOk

\* C18: whatever order the probes end in, results is the configured target
\* list without the targets of the crashed tasks, in configured order, and
\* the failure list keeps that relative order.
C18_ResultsInTargetOrder ==
    /\ [k \in 1..Len(results) |-> <<results[k].name, results[k].url>>]
         = ConfiguredKept(joined)
    /\ AfterFilter =>
         /\ Len(failures) = Cardinality(FailedPositions)
         /\ \A a \in 1..Len(failures) : failures[a] = results[FailedPosition(a)]
    /\ response.kind = "ok" =>
         [k \in 1..Len(response.body[1].results) |->
             <<response.body[1].results[k].name, response.body[1].results[k].url>>]
           = ConfiguredKept(N)

\* Two different targets, both failed in different ways: results and failures
\* list A before B.
C18_Witness ==
    /\ Returned
    /\ N = 2
    /\ domains[1].name = "A" /\ domains[2].name = "B"
    /\ Len(failures) = 2
    /\ failures[1].name = "A" /\ failures[1].error = Some("Timeout")
    /\ failures[2].name = "B" /\ failures[2].error = Some("HTTP 404")
    /\ response.body[1].results = <<OutOf(1), OutOf(2)>>

\* C19: a failed GET gets exactly one label, by the precedence Timeout,
\* Connection failed, Request failed, "Error: <description>"; an error that is
\* both a timeout and a connect failure is labelled "Timeout".
C19_ErrorPrecedence ==
    \A i \in ReturnedTasks :
        ~SentOf(i).ok =>
          LET e == SentOf(i).e
              label == OutOf(i).error IN
            /\ label \in { Some("Timeout"), Some("Connection failed"),
                           Some("Request failed"), Some("Error: " \o e.display) }
            /\ e.is_timeout => label = Some("Timeout")
            /\ (~e.is_timeout /\ e.is_connect) => label = Some("Connection failed")
            /\ (~e.is_timeout /\ ~e.is_connect /\ e.is_request) => label = Some("Request failed")
            /\ (~e.is_timeout /\ ~e.is_connect /\ ~e.is_request)
                 => label = Some("Error: " \o e.display)

\* A run whose results hold the outcome of a connect that timed out.
C19_Witness ==
    /\ Returned
    /\ \E i \in ReturnedTasks :
         /\ SentOf(i).e.is_timeout
         /\ SentOf(i).e.is_connect
         /\ \E k \in 1..Len(results) :
              results[k] = OutOf(i) /\ results[k].error = Some("Timeout")

\* C20: a run with crashed tasks in which every joined outcome is a success
\* sends no alert and returns 200 with failed = 0 and
\* successful = total_checked < number of targets; in every run failed counts
\* the returned failures only.
C20_CrashIsNotFailure ==
    (pc = "done" /\ BootstrapOk) =>
       /\ response.body[1].failed
            = Cardinality({ i \in ReturnedTasks : ~OutOf(i).success })
       /\ (CrashedTasks # {} /\ \A i \in ReturnedTasks : OutOf(i).success) =>
            /\ posts = 0
            /\ message = None
            /\ notifyResult = "none"
            /\ response.kind = "ok"
            /\ response.status = 200
            /\ response.body[1].failed = 0
            /\ response.body[1].successful = response.body[1].total_checked
            /\ response.body[1].total_checked < N

\* The webhook is set, one of two tasks crashed, the other succeeded, and the
\* run has returned without a POST.
C20_Witness ==
    /\ Returned
    /\ webhookSet
    /\ N = 2
    /\ Cardinality(CrashedTasks) = 1
    /\ response.body[1].successful = 1
    /\ response.body[1].failed = 0
    /\ posts = 0

====
